---- MODULE Spec2Model ----
(***************************************************************************)
(* Model of ploidy.c: the region-annotated ploidy table, its record        *)
(* parser, the sex registry and the point query.                           *)
(*                                                                         *)
(* A line is a sequence of one-character strings; position i of a line is  *)
(* the C pointer line+i-1, and a position beyond Len(line) is the          *)
(* terminating NUL.                                                        *)
(***************************************************************************)
EXTENDS Integers, Sequences, FiniteSets, TLC

\* Number of lines the loader feeds to the index before finalising it.
MaxLines == 2

INT_MAX == 2147483647

----------------------------------------------------------------------------
\* Input alphabet: tokens and lines

SP == <<" ">>

chrX == <<"c", "h", "r", "X">>
chr1 == <<"c", "h", "r", "1">>

SexM == <<"M">>
SexF == <<"F">>
SexU == <<"U">>

SexNames == {SexM, SexF, SexU}

Coord0 == <<"0">>
CoordEnd == <<"1", "5", "5", "2", "7", "0", "5", "6", "0">>
Coord100 == <<"1", "0", "0">>
Coord200 == <<"2", "0", "0">>


PloidyTokens == {<<"1">>, <<"2">>, <<"-", "1">>}

MkLine(chr, beg, end, sex, pld) ==
    chr \o SP \o beg \o SP \o end \o SP \o sex \o SP \o pld

\* The whole of chrX for both sexes, and a short stretch inside it.
GoodLines ==
    {MkLine(chrX, Coord0, CoordEnd, s, p) : s \in {SexM, SexF}, p \in PloidyTokens}
        \cup {MkLine(chrX, Coord100, Coord200, SexM, p) : p \in PloidyTokens}

LineBlank == <<>>
LineComment == <<"#", " ", "c">>
LineBadCoord == chrX \o SP \o <<"x">> \o SP \o Coord200
LineThree == chrX \o SP \o Coord100 \o SP \o Coord200
LineThreeSp == chrX \o SP \o Coord100 \o SP \o Coord200 \o SP
LineFour == chrX \o SP \o Coord100 \o SP \o Coord200 \o SP \o SexM
LineFourSp == chrX \o SP \o Coord100 \o SP \o Coord200 \o SP \o SexF \o SP
LineNonNum == chrX \o SP \o Coord100 \o SP \o Coord200 \o SP \o SexM \o SP \o <<"x">>
LineExtra == <<" ">> \o MkLine(chrX, Coord100, Coord200, SexM, <<"1", "x">>) \o <<"\t", "z">>

OddLines ==
    {LineBlank, LineComment, LineBadCoord, LineThree, LineThreeSp,
     LineFour, LineFourSp, LineNonNum, LineExtra}

Lines == GoodLines \cup OddLines

Defaults == {1, 2}

QueryPoints == {<<chrX, 150>>, <<chrX, 5000>>, <<chr1, 5000>>}

\* Which of the outputs sex2ploidy, min and max a query passes non-NULL.
Requests ==
    {<<FALSE, FALSE, FALSE>>, <<TRUE, FALSE, FALSE>>, <<FALSE, TRUE, FALSE>>,
     <<FALSE, FALSE, TRUE>>, <<TRUE, TRUE, TRUE>>}

----------------------------------------------------------------------------
\* C library helpers used by the parser

isspace(c) == c \in {" ", "\t", "\n", "\r"}

isdigit(c) == c \in {"0", "1", "2", "3", "4", "5", "6", "7", "8", "9"}

DigitVal(c) ==
    CASE c = "0" -> 0 [] c = "1" -> 1 [] c = "2" -> 2 [] c = "3" -> 3
      [] c = "4" -> 4 [] c = "5" -> 5 [] c = "6" -> 6 [] c = "7" -> 7
      [] c = "8" -> 8 [] c = "9" -> 9

\* while ( *ss && isspace(*ss) ) ss++;
RECURSIVE SkipSpace(_, _)
SkipSpace(line, ss) ==
    IF ss <= Len(line) /\ isspace(line[ss]) THEN SkipSpace(line, ss + 1) ELSE ss

\* while ( *ss && !isspace(*ss) ) ss++;
RECURSIVE SkipToken(_, _)
SkipToken(line, ss) ==
    IF ss <= Len(line) /\ ~isspace(line[ss]) THEN SkipToken(line, ss + 1) ELSE ss

RECURSIVE ScanDigits(_, _, _)
ScanDigits(line, i, acc) ==
    IF i <= Len(line) /\ isdigit(line[i])
    THEN ScanDigits(line, i + 1, acc * 10 + DigitVal(line[i]))
    ELSE [val |-> acc, end |-> i]

\* strtol(ss,&se,10): leading white space, an optional sign, decimal digits.
\* No digits: the value is 0 and the end pointer is ss itself.
strtol(line, ss) ==
    LET j == SkipSpace(line, ss)
        signed == j <= Len(line) /\ line[j] \in {"-", "+"}
        k == IF signed THEN j + 1 ELSE j
        d == ScanDigits(line, k, 0)
    IN IF d.end = k
       THEN [val |-> 0, end |-> ss]
       ELSE [val |-> IF signed /\ line[j] = "-" THEN 0 - d.val ELSE d.val, end |-> d.end]

----------------------------------------------------------------------------
\* External collaborators (htslib), modelled by their contract

\* The tabular-region parser: 0 and the region on success, -1 for a line to
\* skip (blank or comment), -2 for malformed coordinate fields.  Coordinates
\* are kept as written; the index's numeric convention is not modelled.
regidx_parse_tab(line) ==
    LET ss == SkipSpace(line, 1)
        se == SkipToken(line, ss)
        b == strtol(line, se)
        e == strtol(line, b.end)
        none == [chr |-> <<>>, start |-> 0, end |-> 0]
    IN IF ss > Len(line) \/ line[ss] = "#" THEN [ret |-> -1, reg |-> none]
       ELSE IF se > Len(line) \/ b.end = se \/ e.end = b.end THEN [ret |-> -2, reg |-> none]
       ELSE [ret |-> 0, reg |-> [chr |-> SubSeq(line, ss, se - 1), start |-> b.val, end |-> e.val]]

\* khash_str2int_get: 0 and the stored id when the key is present, -1 otherwise.
khash_str2int_get(hash, str) ==
    IF str \in DOMAIN hash THEN [ret |-> 0, id |-> hash[str]] ELSE [ret |-> -1, id |-> -1]

\* khash_str2int_inc: a new key gets the number of keys stored before it.
khash_str2int_inc(hash, str) ==
    IF str \in DOMAIN hash
    THEN [hash |-> hash, id |-> hash[str]]
    ELSE [hash |-> [s \in DOMAIN hash \cup {str} |->
                        IF s = str THEN Cardinality(DOMAIN hash) ELSE hash[s]],
          id |-> Cardinality(DOMAIN hash)]

\* regidx_overlap + REGITR_OVERLAP: the stored records overlapping the point,
\* in the index's iteration order.
RegOverlaps(r, seq, pos) == r.chr = seq /\ r.start <= pos /\ pos <= r.end

regidx_overlap(idx, seq, pos) == SelectSeq(idx, LAMBDA r : RegOverlaps(r, seq, pos))

\* The index does not promise an iteration order: a new record may land at
\* any place of the order.
InsertAt(idx, k, rec) == SubSeq(idx, 1, k) \o <<rec>> \o SubSeq(idx, k + 1, Len(idx))

----------------------------------------------------------------------------
\* struct _ploidy_t and the record parser

VARIABLES
    ploidy,   \* struct _ploidy_t: nsex, dflt, min, max, idx, sex2id, id2sex
    phase,    \* "loading", "built", "failed" (NULL handle) or "aborted" (error())
    mode,     \* "file" (ploidy_init) or "string" (ploidy_init_string)
    nlines,   \* lines fed to the index so far
    last      \* the most recent call: its arguments, return value and outputs

vars == <<ploidy, phase, mode, nlines, last>>

\* pld->dflt = pld->min = pld->max = dflt; calloc zeroes the rest
NewPloidy(dflt) ==
    [nsex |-> 0, dflt |-> dflt, min |-> dflt, max |-> dflt,
     idx |-> <<>>, sex2id |-> <<>>, id2sex |-> <<>>]

\* Variant: the new name is stored at the front of the id-to-name table.
RegisterSex_front(p, name) ==
    LET inc == khash_str2int_inc(p.sex2id, name)
    IN [p |-> [p EXCEPT !.nsex = p.nsex + 1,
                        !.id2sex = <<name>> \o p.id2sex,
                        !.sex2id = inc.hash],
        id |-> inc.id]

\* nsex++; hts_expand0; id2sex[nsex-1] = strdup(name); khash_str2int_inc
RegisterSex(p, name) ==
    LET inc == khash_str2int_inc(p.sex2id, name)
    IN [p |-> [p EXCEPT !.nsex = p.nsex + 1,
                        !.id2sex = Append(p.id2sex, name),
                        !.sex2id = inc.hash],
        id |-> inc.id]

\* Variant: the loop skips two fields instead of three.
RECURSIVE SkipFields_two(_, _, _)
SkipFields_two(line, ss, i) ==
    IF i >= 2 THEN ss
    ELSE LET a == SkipToken(line, ss)
         IN IF a > Len(line) THEN 0 ELSE SkipFields_two(line, SkipSpace(line, a), i + 1)

\* for (i=0; i<3; i++) { skip a field; if ( !*ss ) return -2; skip white space }
\* 0 stands for the early return.
RECURSIVE SkipFields(_, _, _)
SkipFields(line, ss, i) ==
    IF i = 3 THEN ss
    ELSE LET a == SkipToken(line, ss)
         IN IF a > Len(line) THEN 0 ELSE SkipFields(line, SkipSpace(line, a), i + 1)

\* Variant: the minimum is overwritten by every record, without the comparison.
UpdateMinMax_assign(p, pld) ==
    [p EXCEPT !.min = pld,
              !.max = IF pld > p.max THEN pld ELSE p.max]

\* Variant: only the maximum is tracked.
UpdateMinMax_maxonly(p, pld) ==
    [p EXCEPT !.max = IF pld > p.max THEN pld ELSE p.max]

\* if ( sp->ploidy < ploidy->min ) ...; if ( sp->ploidy > ploidy->max ) ...
UpdateMinMax(p, pld) ==
    [p EXCEPT !.min = IF pld < p.min THEN pld ELSE p.min,
              !.max = IF pld > p.max THEN pld ELSE p.max]

NoPayload == [sex |-> -1, ploidy |-> 0]
NoReg == [chr |-> <<>>, start |-> 0, end |-> 0]

ploidy_parse(p, line) ==
    LET t == regidx_parse_tab(line)
        Out(ret, fatal, q, reg, sp) ==
            [ret |-> ret, fatal |-> fatal, ploidy |-> q, reg |-> reg, payload |-> sp]
    IN IF t.ret # 0 THEN Out(t.ret, FALSE, p, NoReg, NoPayload)
       ELSE
       LET ss == SkipFields(line, SkipSpace(line, 1), 0)
       IN IF ss = 0 \/ ss > Len(line) THEN Out(-2, FALSE, p, t.reg, NoPayload)
          ELSE
          LET se == SkipToken(line, ss)
          IN IF se > Len(line) \/ se = ss THEN Out(0, TRUE, p, t.reg, NoPayload)
             ELSE
             LET name == SubSeq(line, ss, se - 1)
                 got == khash_str2int_get(p.sex2id, name)
                 reg == IF got.ret # 0 THEN RegisterSex(p, name) ELSE [p |-> p, id |-> got.id]
                 se2 == SkipSpace(line, se)
                 num == strtol(line, se)
             IN IF se2 > Len(line) THEN Out(0, TRUE, reg.p, t.reg, [sex |-> reg.id, ploidy |-> 0])
                ELSE IF num.end = se THEN Out(0, TRUE, reg.p, t.reg, [sex |-> reg.id, ploidy |-> 0])
                ELSE Out(0, FALSE, UpdateMinMax(reg.p, num.val), t.reg,
                         [sex |-> reg.id, ploidy |-> num.val])

----------------------------------------------------------------------------
\* The point query

\* Variant: the vector is zeroed instead of being filled with the default.
FillDefault_zero(p) == [i \in 1..p.nsex |-> 0]

\* for (i=0; i<ploidy->nsex; i++) sex2ploidy[i] = ploidy->dflt;
FillDefault(p) == [i \in 1..p.nsex |-> p.dflt]

\* Variant: the loop body without the test against the default.
LoopBody_noguard(p, acc, rec) ==
    [vec |-> [acc.vec EXCEPT ![rec.sex + 1] = rec.ploidy],
     min |-> IF acc.min > rec.ploidy THEN rec.ploidy ELSE acc.min,
     max |-> IF acc.max < rec.ploidy THEN rec.ploidy ELSE acc.max]

\* One pass of the while loop: a record whose ploidy differs from the default
\* writes its sex's slot (slot sex+1 of the 1-based vector) and moves the
\* running bounds.
LoopBody(p, acc, rec) ==
    IF rec.ploidy # p.dflt
    THEN [vec |-> [acc.vec EXCEPT ![rec.sex + 1] = rec.ploidy],
          min |-> IF acc.min > rec.ploidy THEN rec.ploidy ELSE acc.min,
          max |-> IF acc.max < rec.ploidy THEN rec.ploidy ELSE acc.max]
    ELSE acc

RECURSIVE Loop(_, _, _, _)
Loop(p, itr, i, acc) ==
    IF i > Len(itr) THEN acc ELSE Loop(p, itr, i + 1, LoopBody(p, acc, itr[i]))

\* if ( _max==-1 ) _max = _min = ploidy->dflt;
Collapse(p, acc) ==
    IF acc.max = -1 THEN [acc EXCEPT !.min = p.dflt, !.max = p.dflt] ELSE acc

\* An output that was not requested (a NULL pointer) is the empty sequence,
\* a written one is a sequence of one element.
ploidy_query(p, seq, pos, wvec, wmin, wmax) ==
    LET itr == regidx_overlap(p.idx, seq, pos)
        ret == IF Len(itr) > 0 THEN 1 ELSE 0
        Opt(w, v) == IF w THEN <<v>> ELSE <<>>
    IN IF ~wvec /\ ~wmin /\ ~wmax
       THEN [ret |-> ret, vec |-> <<>>, min |-> <<>>, max |-> <<>>]
       ELSE IF ret = 0
       THEN [ret |-> 0, vec |-> Opt(wvec, FillDefault(p)),
             min |-> Opt(wmin, p.dflt), max |-> Opt(wmax, p.dflt)]
       ELSE LET acc == Collapse(p, Loop(p, itr, 1,
                           [vec |-> FillDefault(p), min |-> INT_MAX, max |-> -1]))
            IN [ret |-> 1, vec |-> Opt(wvec, acc.vec),
                min |-> Opt(wmin, acc.min), max |-> Opt(wmax, acc.max)]

----------------------------------------------------------------------------
\* Accessors

ploidy_nsex(p) == p.nsex

\* NULL is the empty sequence, a name is a sequence of one element.
ploidy_id2sex(p, id) == IF id < 0 \/ id >= p.nsex THEN <<>> ELSE <<p.id2sex[id + 1]>>

ploidy_sex2id(p, sex) ==
    LET got == khash_str2int_get(p.sex2id, sex)
    IN IF got.ret # 0 THEN -1 ELSE got.id

\* Variant: the name is registered without looking it up first.
ploidy_add_sex_nolookup(p, sex) ==
    LET reg == RegisterSex(p, sex)
    IN [ret |-> reg.id, ploidy |-> reg.p]

\* Variant: a new name restarts the observed bounds at the default.
ploidy_add_sex_reset(p, sex) ==
    LET got == khash_str2int_get(p.sex2id, sex)
        reg == RegisterSex(p, sex)
    IN IF got.ret = 0 THEN [ret |-> got.id, ploidy |-> p]
       ELSE [ret |-> reg.id, ploidy |-> [reg.p EXCEPT !.min = p.dflt, !.max = p.dflt]]

ploidy_add_sex(p, sex) ==
    LET got == khash_str2int_get(p.sex2id, sex)
        reg == RegisterSex(p, sex)
    IN IF got.ret = 0 THEN [ret |-> got.id, ploidy |-> p]
       ELSE [ret |-> reg.id, ploidy |-> reg.p]

ploidy_max(p) == IF p.dflt > p.max THEN p.dflt ELSE p.max

ploidy_min(p) == IF p.dflt < p.min THEN p.dflt ELSE p.min

----------------------------------------------------------------------------
\* The record of the most recent call

NoCall ==
    [op |-> "none", line |-> <<>>, seq |-> <<>>, pos |-> 0, name |-> <<>>, id |-> 0,
     wvec |-> FALSE, wmin |-> FALSE, wmax |-> FALSE,
     ret |-> 0, str |-> <<>>, vec |-> <<>>, omin |-> <<>>, omax |-> <<>>, msg |-> <<>>]

Init ==
    /\ \E d \in Defaults : ploidy = NewPloidy(d)
    /\ phase = "loading"
    /\ mode \in {"file", "string"}
    /\ nlines = 0
    /\ last = NoCall

\* regidx_insert(idx, line) calling ploidy_parse: 0 stores the record, -1
\* skips the line, -2 is an error, which regidx_init turns into a NULL index
\* (ploidy_init then destroys the table) and ploidy_init_string ignores.
\* error() ends the process.
Insert(line) ==
    /\ phase = "loading"
    /\ nlines < MaxLines
    /\ LET r == ploidy_parse(ploidy, line)
           ok == ~r.fatal /\ r.ret = 0
           rec == [chr |-> r.reg.chr, start |-> r.reg.start, end |-> r.reg.end,
                   sex |-> r.payload.sex, ploidy |-> r.payload.ploidy]
       IN /\ \E k \in (IF ok THEN 0..Len(ploidy.idx) ELSE {0}) :
                ploidy' = IF ok THEN [r.ploidy EXCEPT !.idx = InsertAt(ploidy.idx, k, rec)]
                          ELSE r.ploidy
          /\ phase' = IF r.fatal THEN "aborted"
                      ELSE IF r.ret = -2 /\ mode = "file" THEN "failed"
                      ELSE "loading"
          /\ last' = [NoCall EXCEPT !.op = "insert", !.line = line, !.ret = r.ret,
                                    !.msg = IF r.fatal THEN <<line>> ELSE <<>>]
    /\ nlines' = nlines + 1
    /\ UNCHANGED mode

\* regidx_insert(idx, NULL): the index is finalised and the handle returned.
Build ==
    /\ phase = "loading"
    /\ phase' = "built"
    /\ last' = [NoCall EXCEPT !.op = "build"]
    /\ UNCHANGED <<ploidy, mode, nlines>>

Query(seq, pos, wvec, wmin, wmax) ==
    /\ phase = "built"
    /\ LET r == ploidy_query(ploidy, seq, pos, wvec, wmin, wmax)
       IN last' = [NoCall EXCEPT !.op = "query", !.seq = seq, !.pos = pos,
                                 !.wvec = wvec, !.wmin = wmin, !.wmax = wmax,
                                 !.ret = r.ret, !.vec = r.vec, !.omin = r.min, !.omax = r.max]
    /\ UNCHANGED <<ploidy, phase, mode, nlines>>

Nsex ==
    /\ phase = "built"
    /\ last' = [NoCall EXCEPT !.op = "nsex", !.ret = ploidy_nsex(ploidy)]
    /\ UNCHANGED <<ploidy, phase, mode, nlines>>

Id2sex(id) ==
    /\ phase = "built"
    /\ last' = [NoCall EXCEPT !.op = "id2sex", !.id = id, !.str = ploidy_id2sex(ploidy, id)]
    /\ UNCHANGED <<ploidy, phase, mode, nlines>>

Sex2id(sex) ==
    /\ phase = "built"
    /\ last' = [NoCall EXCEPT !.op = "sex2id", !.name = sex, !.ret = ploidy_sex2id(ploidy, sex)]
    /\ UNCHANGED <<ploidy, phase, mode, nlines>>

AddSex(sex) ==
    /\ phase = "built"
    /\ LET r == ploidy_add_sex(ploidy, sex)
       IN /\ ploidy' = r.ploidy
          /\ last' = [NoCall EXCEPT !.op = "add_sex", !.name = sex, !.ret = r.ret]
    /\ UNCHANGED <<phase, mode, nlines>>

Max ==
    /\ phase = "built"
    /\ last' = [NoCall EXCEPT !.op = "max", !.ret = ploidy_max(ploidy)]
    /\ UNCHANGED <<ploidy, phase, mode, nlines>>

Min ==
    /\ phase = "built"
    /\ last' = [NoCall EXCEPT !.op = "min", !.ret = ploidy_min(ploidy)]
    /\ UNCHANGED <<ploidy, phase, mode, nlines>>

Next ==
    \/ \E line \in Lines : Insert(line)
    \/ Build
    \/ \E q \in QueryPoints, w \in Requests : Query(q[1], q[2], w[1], w[2], w[3])
    \/ Nsex
    \/ \E id \in -1..3 : Id2sex(id)
    \/ \E sex \in SexNames : Sex2id(sex)
    \/ \E sex \in SexNames : AddSex(sex)
    \/ Max
    \/ Min

Spec == Init /\ [][Next]_vars

----------------------------------------------------------------------------
\* Vocabulary of the properties

Range(f) == {f[i] : i \in 1..Len(f)}

MinOf(S) == CHOOSE x \in S : \A y \in S : x <= y

MaxOf(S) == CHOOSE x \in S : \A y \in S : x >= y

\* The white-space separated fields of a line.
RECURSIVE Fields(_, _)
Fields(line, i) ==
    LET a == SkipSpace(line, i)
        b == SkipToken(line, a)
    IN IF a > Len(line) THEN <<>> ELSE <<SubSeq(line, a, b - 1)>> \o Fields(line, b)

IsNumber(tok) == strtol(tok, 1).end # 1

CoordAccepted(line) == regidx_parse_tab(line).ret = 0

MissingSex(line) == Len(Fields(line, 1)) < 4

MissingPloidy(line) == Len(Fields(line, 1)) = 4

NonNumericPloidy(line) == Len(Fields(line, 1)) >= 5 /\ ~IsNumber(Fields(line, 1)[5])

\* The stored records that overlap the point of the last query, in iteration order.
Hits == SelectSeq(ploidy.idx, LAMBDA r : r.chr = last.seq /\ r.start <= last.pos /\ last.pos <= r.end)

HitsOfSex(s) == SelectSeq(Hits, LAMBDA r : r.sex = s)

Queried == phase = "built" /\ last.op = "query"

AllRequested == last.wvec /\ last.wmin /\ last.wmax

----------------------------------------------------------------------------
\* C1: a query at a point that no stored interval overlaps returns 0, writes
\* the default ploidy to min and to max when they are requested, and writes
\* the default ploidy into each of the nsex slots of the per-sex vector when
\* it is requested.
C1_NoOverlapDefault ==
    (Queried /\ Hits = <<>>) =>
        /\ last.ret = 0
        /\ last.wmin => last.omin = <<ploidy.dflt>>
        /\ last.wmax => last.omax = <<ploidy.dflt>>
        /\ last.wvec =>
              /\ Len(last.vec) = 1
              /\ Len(last.vec[1]) = ploidy_nsex(ploidy)
              /\ \A i \in 1..ploidy_nsex(ploidy) : last.vec[1][i] = ploidy.dflt

\* A no-overlap query for the vector on a table with records and a sex that
\* was added with add_sex after the load.
C1_Witness ==
    /\ Queried /\ Hits = <<>> /\ last.wvec
    /\ Len(ploidy.idx) > 0
    /\ ploidy.nsex = 3 /\ ploidy.id2sex[3] = SexU

----------------------------------------------------------------------------
\* Scenario B: default 2, the records (chrX, 0..155270560, M, 1) and
\* (chrX, 0..155270560, F, 2), M registered before F.
RecM == [chr |-> chrX, start |-> 0, end |-> 155270560, sex |-> 0, ploidy |-> 1]
RecF == [chr |-> chrX, start |-> 0, end |-> 155270560, sex |-> 1, ploidy |-> 2]

ScenarioB ==
    /\ ploidy.dflt = 2
    /\ ploidy.id2sex = <<SexM, SexF>>
    /\ Len(ploidy.idx) = 2
    /\ Range(ploidy.idx) = {RecM, RecF}

\* C2 as stated: in scenario B the query at (chrX, 5000) returns found with
\* vector [1,2], min 1 and max 2; the query on chr1 returns vector [2,2].
C2_Original ==
    (ScenarioB /\ Queried /\ AllRequested) =>
        /\ (last.seq = chrX /\ last.pos = 5000) =>
              /\ last.ret = 1
              /\ last.vec = << <<1, 2>> >>
              /\ last.omin = <<1>>
              /\ last.omax = <<2>>
        /\ last.seq = chr1 => last.vec = << <<2, 2>> >>

\* C2 amended: in scenario B the query at (chrX, 5000) returns found with
\* vector [1,2], min 1 and max 1 (the F record carries the default ploidy and
\* does not move the bounds); the query on chr1 returns 0 with vector [2,2].
C2_ScenarioB ==
    (ScenarioB /\ Queried /\ AllRequested) =>
        /\ (last.seq = chrX /\ last.pos = 5000) =>
              /\ last.ret = 1
              /\ last.vec = << <<1, 2>> >>
              /\ last.omin = <<1>>
              /\ last.omax = <<1>>
        /\ last.seq = chr1 =>
              /\ last.ret = 0
              /\ last.vec = << <<2, 2>> >>

C2_Witness ==
    /\ ScenarioB /\ Queried /\ AllRequested
    /\ last.seq = chrX /\ last.pos = 5000
    /\ last.ret = 1

----------------------------------------------------------------------------
\* C3: when two or more overlapping records of one sex carry different ploidy
\* values, the slot of that sex holds the ploidy of the record that comes
\* last in the iteration order.
C3_LastWins ==
    (Queried /\ last.wvec) =>
        \A s \in 0..(ploidy.nsex - 1) :
            (\E i, j \in 1..Len(HitsOfSex(s)) : HitsOfSex(s)[i].ploidy # HitsOfSex(s)[j].ploidy)
                => last.vec[1][s + 1] = HitsOfSex(s)[Len(HitsOfSex(s))].ploidy

----------------------------------------------------------------------------
\* C4: sex2id on a name that is not registered returns -1 and changes nothing;
\* add_sex called again with the same name returns the same id and leaves the
\* count and the id-to-name table unchanged.
C4_State ==
    (phase = "built" /\ last.op = "sex2id" /\ last.name \notin Range(ploidy.id2sex))
        => last.ret = -1

C4_Step ==
    /\ last'.op = "sex2id" => ploidy' = ploidy
    /\ (last'.op = "add_sex" /\ last'.name \in Range(ploidy.id2sex)) =>
          /\ ploidy.id2sex[last'.ret + 1] = last'.name
          /\ ploidy'.nsex = ploidy.nsex
          /\ ploidy'.id2sex = ploidy.id2sex
    /\ (last.op = "add_sex" /\ last'.op = "add_sex" /\ last'.name = last.name) =>
          /\ last'.ret = last.ret
          /\ ploidy'.nsex = ploidy.nsex
          /\ ploidy'.id2sex = ploidy.id2sex

C4_AddSexIdempotent == [](C4_State) /\ [][C4_Step]_vars

\* add_sex has registered U after M and F were parsed.
C4_Witness ==
    /\ phase = "built" /\ last.op = "add_sex" /\ last.name = SexU
    /\ last.ret = 2 /\ ploidy.nsex = 3
    /\ ploidy.id2sex = <<SexM, SexF, SexU>>

----------------------------------------------------------------------------
\* C5: ploidy_min() <= ploidy_max(), the stored bounds satisfy
\* min <= dflt <= max, and a table without records reports the default for
\* both.
C5_Bounds ==
    /\ ploidy_min(ploidy) <= ploidy_max(ploidy)
    /\ ploidy.min <= ploidy.dflt
    /\ ploidy.dflt <= ploidy.max
    /\ ploidy.idx = <<>> => (ploidy_min(ploidy) = ploidy.dflt /\ ploidy_max(ploidy) = ploidy.dflt)
    /\ last.op = "min" => last.ret = ploidy_min(ploidy)
    /\ last.op = "max" => last.ret = ploidy_max(ploidy)

\* Records below and above the default have been parsed and min was read.
C5_Witness ==
    /\ phase = "built" /\ last.op = "min"
    /\ last.ret < ploidy.dflt
    /\ ploidy.max > ploidy.dflt
    /\ Len(ploidy.idx) = 2

----------------------------------------------------------------------------
----------------------------------------------------------------------------
\* C7: the ids are 0..nsex-1 in order of first appearance, id2sex and sex2id
\* are inverse of each other, id2sex returns NULL outside 0..nsex-1, the id of
\* a registered name never changes, nsex never decreases, and each stored
\* record's sex is below nsex.
C7_State ==
    /\ ploidy.nsex = Len(ploidy.id2sex)
    /\ DOMAIN ploidy.sex2id = Range(ploidy.id2sex)
    /\ \A i \in 0..(ploidy_nsex(ploidy) - 1) :
          /\ ploidy_id2sex(ploidy, i) # <<>>
          /\ ploidy_sex2id(ploidy, ploidy_id2sex(ploidy, i)[1]) = i
    /\ \A i \in {-2, -1, ploidy_nsex(ploidy), ploidy_nsex(ploidy) + 1} :
          ploidy_id2sex(ploidy, i) = <<>>
    /\ \A k \in 1..Len(ploidy.idx) :
          ploidy.idx[k].sex >= 0 /\ ploidy.idx[k].sex < ploidy_nsex(ploidy)
    /\ last.op = "id2sex" =>
          last.str = (IF last.id < 0 \/ last.id >= ploidy.nsex THEN <<>>
                      ELSE <<ploidy.id2sex[last.id + 1]>>)

C7_Step ==
    /\ ploidy'.nsex >= ploidy.nsex
    /\ ploidy'.nsex <= ploidy.nsex + 1
    /\ SubSeq(ploidy'.id2sex, 1, ploidy.nsex) = ploidy.id2sex
    /\ \A n \in DOMAIN ploidy.sex2id : ploidy'.sex2id[n] = ploidy.sex2id[n]
    /\ ploidy'.nsex = ploidy.nsex + 1 =>
          /\ last'.op \in {"insert", "add_sex"}
          /\ last'.op = "add_sex" =>
                (ploidy'.id2sex[ploidy'.nsex] = last'.name /\ last'.ret = ploidy.nsex)
          /\ last'.op = "insert" =>
                ploidy'.id2sex[ploidy'.nsex] = Fields(last'.line, 1)[4]

C7_Registry == [](C7_State) /\ [][C7_Step]_vars

\* Two sexes came from records and add_sex registered a third.
C7_Witness ==
    /\ phase = "built" /\ last.op = "add_sex" /\ last.ret = 2
    /\ ploidy.nsex = 3
    /\ Len(ploidy.idx) = 2
    /\ ploidy.idx[1].sex # ploidy.idx[2].sex

----------------------------------------------------------------------------
\* C8: with at least one overlapping record, min and max are the default iff
\* every overlapping record carries the default; otherwise they are the
\* smallest and the largest ploidy among the overlapping records that differ
\* from the default.
NonDefaultHits == {Hits[i].ploidy : i \in {k \in 1..Len(Hits) : Hits[k].ploidy # ploidy.dflt}}

C8_BoundReduction ==
    (Queried /\ last.wmin /\ last.wmax /\ Hits # <<>>) =>
        IF NonDefaultHits = {}
        THEN last.omin = <<ploidy.dflt>> /\ last.omax = <<ploidy.dflt>>
        ELSE last.omin = <<MinOf(NonDefaultHits)>> /\ last.omax = <<MaxOf(NonDefaultHits)>>

----------------------------------------------------------------------------
\* C9: query, nsex, id2sex, sex2id, min and max leave the table unchanged;
\* add_sex leaves the records, the default and the observed bounds unchanged;
\* no step changes the default.
C9_Step ==
    /\ last'.op \in {"query", "nsex", "id2sex", "sex2id", "min", "max"} => ploidy' = ploidy
    /\ last'.op = "add_sex" =>
          /\ ploidy'.idx = ploidy.idx
          /\ ploidy'.dflt = ploidy.dflt
          /\ ploidy'.min = ploidy.min
          /\ ploidy'.max = ploidy.max
    /\ ploidy'.dflt = ploidy.dflt

C9_Frame == [][C9_Step]_vars

\* add_sex has registered a new name on a table whose bounds moved off the default.
C9_Witness ==
    /\ phase = "built" /\ last.op = "add_sex"
    /\ last.ret = ploidy.nsex - 1 /\ ploidy.id2sex[ploidy.nsex] = last.name
    /\ Len(ploidy.idx) > 0
    /\ ploidy.min < ploidy.dflt

----------------------------------------------------------------------------
\* C10: the answers of a query lie within the table-wide bounds:
\* ploidy_min() <= min <= max <= ploidy_max(), and each slot of the vector is
\* in [ploidy_min(), ploidy_max()].
C10_Enclosed ==
    Queried =>
        /\ last.wmin => (ploidy_min(ploidy) <= last.omin[1] /\ last.omin[1] <= ploidy_max(ploidy))
        /\ last.wmax => (ploidy_min(ploidy) <= last.omax[1] /\ last.omax[1] <= ploidy_max(ploidy))
        /\ (last.wmin /\ last.wmax) => last.omin[1] <= last.omax[1]
        /\ last.wvec => \A i \in 1..Len(last.vec[1]) :
              ploidy_min(ploidy) <= last.vec[1][i] /\ last.vec[1][i] <= ploidy_max(ploidy)

\* Two overlapping records that differ from the default gave min < max.
C10_Witness ==
    /\ Queried /\ AllRequested /\ Len(Hits) = 2
    /\ last.omin[1] < last.omax[1]
    /\ last.omin[1] = ploidy_min(ploidy)

====
